---- MODULE Spec2Model ----
(***************************************************************************)
(* Model of the translate-gherkin tool (GherkinTranslator and its CLI).    *)
(*                                                                         *)
(* A JavaScript string is a sequence of "characters"; the characters of    *)
(* the model are coarse tokens ("#", " ", ":", "language", "Feature", ...) *)
(* so that splitting, joining, String.replace, startsWith and the regular  *)
(* expressions are computed on sequences the way the code computes them on *)
(* characters.  The text of a file is one such sequence with "\n" tokens.  *)
(***************************************************************************)
EXTENDS Integers, Sequences, FiniteSets, TLC

\* JavaScript `undefined` / `null` where a string is expected: a one-token
\* sequence no text contains.
Undefined == <<"undefined">>

\* `undefined` where the key of a dialect entry is expected
NoEntry == "undefined"

\* `null` as the result of String.prototype.match
NoMatch == <<>>

\* static DEFAULT_DIALECT_CODE = "en"
DEFAULT_DIALECT_CODE == <<"en">>

----------------------------------------------------------------------------
(* Bounds of the inputs.                                                   *)

\* Most lines before the feature line (annotations, blank lines).
MaxHeader == 2
\* Most lines after the feature line (scenario, step and description lines).
MaxBody == 2
\* Most translateGherkin calls in one behaviour (a result may be fed back).
MaxCalls == 2
\* Most input files of one run of the command line tool.
MaxFiles == 2

----------------------------------------------------------------------------
(* Strings.                                                                *)

Min(a, b) == IF a <= b THEN a ELSE b

\* \s of the regular expressions
IsSpace(c) == c \in {" ", "  "}

\* \w of the regular expressions: ASCII letters, digits and underscore
IsWord(c) == c \in {"language", "en", "de", "au", "xx", "Feature", "Ability",
                    "Business", "Need", "Funktion", "Example", "Scenario",
                    "Beispiel", "Szenario", "Given", "And", "Angenommen",
                    "Gegeben", "sei", "seien", "Und", "Pretty", "much",
                    "look", "mate", "Too", "right", "X", "Y", "Z", "Note"}

\* [a-zA-Z\-_] of the parser's language pattern
IsLangChar(c) == IsWord(c) \/ c = "-"

RECURSIVE SkipSpace(_, _)
SkipSpace(s, i) ==
  IF i <= Len(s) /\ IsSpace(s[i]) THEN SkipSpace(s, i + 1) ELSE i

RECURSIVE SkipWord(_, _)
SkipWord(s, i) ==
  IF i <= Len(s) /\ IsWord(s[i]) THEN SkipWord(s, i + 1) ELSE i

RECURSIVE SkipLangChar(_, _)
SkipLangChar(s, i) ==
  IF i <= Len(s) /\ IsLangChar(s[i]) THEN SkipLangChar(s, i + 1) ELSE i

\* String.prototype.startsWith
StartsWith(s, p) == Len(p) <= Len(s) /\ SubSeq(s, 1, Len(p)) = p

\* s.substring(i - 1): the characters of s from position i (1-based) on
Rest(s, i) == SubSeq(s, i, Len(s))

\* String.prototype.indexOf(p), 0-based, -1 when p does not occur
StrIndexOf(s, p) ==
  LET hits == {i \in 1..(Len(s) - Len(p) + 1) : SubSeq(s, i, i + Len(p) - 1) = p}
  IN  IF hits = {} THEN -1
      ELSE (CHOOSE i \in hits : \A j \in hits : i <= j) - 1

\* A variant of StrReplace that replaces the last occurrence instead of the first.
StrReplaceLast(s, p, r) ==
  LET hits == {i \in 1..(Len(s) - Len(p) + 1) : SubSeq(s, i, i + Len(p) - 1) = p}
      k    == IF hits = {} THEN -1
              ELSE (CHOOSE i \in hits : \A j \in hits : i >= j) - 1
  IN  IF k < 0 THEN s
      ELSE SubSeq(s, 1, k) \o r \o Rest(s, k + Len(p) + 1)

\* String.prototype.replace(pattern, replacement) with a string pattern:
\* only the first occurrence is replaced, the string is returned as it is
\* when the pattern does not occur.
StrReplace(s, p, r) ==
  LET k == StrIndexOf(s, p)
  IN  IF k < 0 THEN s
      ELSE SubSeq(s, 1, k) \o r \o Rest(s, k + Len(p) + 1)

\* String.prototype.split("\n"): always at least one line
RECURSIVE Split(_)
Split(s) ==
  LET k == StrIndexOf(s, <<"\n">>)
  IN  IF k < 0 THEN <<s>>
      ELSE <<SubSeq(s, 1, k)>> \o Split(Rest(s, k + 2))

\* A variant of Join that leaves out an empty last line.
RECURSIVE JoinTrimmed(_)
JoinTrimmed(lines) ==
  IF Len(lines) = 0 THEN <<>>
  ELSE IF Len(lines) = 1 THEN lines[1]
  ELSE IF Len(lines) = 2 /\ lines[2] = <<>> THEN lines[1]
  ELSE lines[1] \o <<"\n">> \o JoinTrimmed(Tail(lines))

\* Array.prototype.join("\n")
RECURSIVE Join(_)
Join(lines) ==
  IF Len(lines) = 0 THEN <<>>
  ELSE IF Len(lines) = 1 THEN lines[1]
  ELSE lines[1] \o <<"\n">> \o Join(Tail(lines))

\* Array.prototype.indexOf(x), 0-based, -1 when x is no element
IndexOf(list, x) ==
  LET hits == {i \in 1..Len(list) : list[i] = x}
  IN  IF hits = {} THEN -1
      ELSE (CHOOSE i \in hits : \A j \in hits : i <= j) - 1

\* Array.prototype.includes(x)
Includes(list, x) == \E i \in 1..Len(list) : list[i] = x

\* list[i] with a 0-based index: undefined outside the array
At(list, i) == IF i >= 0 /\ i < Len(list) THEN list[i + 1] ELSE Undefined

----------------------------------------------------------------------------
(* The dialect table (Gherkin.dialects), restricted to three dialects and  *)
(* to the keyword types and, feature, given and scenario.  The keyword     *)
(* lists are the lists of the gherkin library for these types.             *)

EN == <<"en">>
DE == <<"de">>
AU == <<"en", "-", "au">>
XX == <<"xx">>

Bullet == <<"*", " ">>

GherkinDialects ==
  [c \in {EN, DE, AU} |->
     IF c = EN THEN
       [name     |-> <<"English">>,
        and      |-> <<Bullet, <<"And", " ">>>>,
        feature  |-> <<<<"Feature">>, <<"Business", " ", "Need">>, <<"Ability">>>>,
        given    |-> <<Bullet, <<"Given", " ">>>>,
        scenario |-> <<<<"Example">>, <<"Scenario">>>>]
     ELSE IF c = DE THEN
       [name     |-> <<"German">>,
        and      |-> <<Bullet, <<"Und", " ">>>>,
        feature  |-> <<<<"Funktionalität">>, <<"Funktion">>>>,
        given    |-> <<Bullet, <<"Angenommen", " ">>,
                       <<"Gegeben", " ", "sei", " ">>,
                       <<"Gegeben", " ", "seien", " ">>>>,
        scenario |-> <<<<"Beispiel">>, <<"Szenario">>>>]
     ELSE
       [name     |-> <<"Australian">>,
        and      |-> <<Bullet, <<"Too", " ", "right", " ">>>>,
        feature  |-> <<<<"Pretty", " ", "much">>>>,
        given    |-> <<Bullet, <<"Y'know", " ">>>>,
        scenario |-> <<<<"Awww,", " ", "look", " ", "mate">>>>]]

\* The same table with a gap: the German dialect offers no scenario keyword.
GappedDialects ==
  [GherkinDialects EXCEPT ![DE].scenario = <<>>]

\* Object.entries(dialect): the keys of a dialect in their iteration order
DialectKeys == <<"and", "feature", "given", "name", "scenario">>

\* Array.isArray(dialect[key])
IsArrayKey(key) == key # "name"

\* Gherkin.dialects[code] is an object (not undefined)
IsDialect(table, code) == code \in DOMAIN table

----------------------------------------------------------------------------
(* The parser (this.parser.parse) as far as the translator depends on it:  *)
(* the token matcher of the gherkin library and the states of its grammar  *)
(* for language, comment, empty, feature, scenario, step and other lines.  *)

\* GherkinLine.trimmedLineText (leading white space removed)
TrimLeft(line) == Rest(line, SkipSpace(line, 1))

\* match_Language: /^\s*#\s*language\s*:\s*([a-zA-Z\-_]+)\s*$/ ; the code or undefined
MatchLanguage(line) ==
  LET a == SkipSpace(line, 1)
      b == SkipSpace(line, a + 1)
      c == SkipSpace(line, b + 1)
      d == SkipSpace(line, c + 1)
      e == SkipLangChar(line, d)
      f == SkipSpace(line, e)
  IN  IF /\ a <= Len(line) /\ line[a] = "#"
         /\ b <= Len(line) /\ line[b] = "language"
         /\ c <= Len(line) /\ line[c] = ":"
         /\ e > d
         /\ f = Len(line) + 1
      THEN SubSeq(line, d, e - 1)
      ELSE Undefined

\* match_Comment
MatchComment(line) == StartsWith(TrimLeft(line), <<"#">>)

\* match_Empty
MatchEmpty(line) == TrimLeft(line) = <<>>

\* The first keyword of the list the trimmed line starts with (followed by
\* the suffix), or undefined.
FirstKeyword(keywords, line, suffix) ==
  LET t    == TrimLeft(line)
      hits == {j \in 1..Len(keywords) : StartsWith(t, keywords[j] \o suffix)}
  IN  IF hits = {} THEN Undefined
      ELSE keywords[CHOOSE j \in hits : \A k \in hits : j <= k]

\* match_FeatureLine, match_ScenarioLine: matchTitleLine
MatchFeatureLine(dialect, line) == FirstKeyword(dialect.feature, line, <<":">>)
MatchScenarioLine(dialect, line) == FirstKeyword(dialect.scenario, line, <<":">>)

\* match_StepLine
MatchStepLine(dialect, line) ==
  FirstKeyword(dialect.given \o dialect.and, line, <<>>)

ParseFailure ==
  [error |-> "ParseError", feature |-> FALSE, language |-> Undefined, nodes |-> <<>>]

\* The document: the declared language and the keyword-bearing nodes in the
\* order in which walkGherkinDocument visits them (document order).
RECURSIVE ParseFrom(_, _, _, _, _, _)
ParseFrom(table, lines, i, st, lang, nodes) ==
  IF i > Len(lines) THEN
    IF st = "lang" THEN ParseFailure
    ELSE [error |-> "none", feature |-> st # "start",
          language |-> IF st = "start" THEN Undefined ELSE lang,
          nodes |-> nodes]
  ELSE
    LET line    == lines[i]
        dialect == table[lang]
        node(k) == [keyword |-> k, line |-> i]
        feat    == MatchFeatureLine(dialect, line)
        scen    == MatchScenarioLine(dialect, line)
        step    == MatchStepLine(dialect, line)
        blank   == MatchComment(line) \/ MatchEmpty(line)
    IN  CASE st = "start" ->
               IF MatchLanguage(line) # Undefined THEN
                 IF MatchLanguage(line) \in DOMAIN table
                 THEN ParseFrom(table, lines, i + 1, "lang", MatchLanguage(line), nodes)
                 ELSE ParseFailure
               ELSE IF feat # Undefined THEN
                 ParseFrom(table, lines, i + 1, "feature", lang, Append(nodes, node(feat)))
               ELSE IF blank THEN ParseFrom(table, lines, i + 1, st, lang, nodes)
               ELSE ParseFailure
          [] st = "lang" ->
               IF feat # Undefined THEN
                 ParseFrom(table, lines, i + 1, "feature", lang, Append(nodes, node(feat)))
               ELSE IF blank THEN ParseFrom(table, lines, i + 1, st, lang, nodes)
               ELSE ParseFailure
          [] st = "feature" ->
               IF blank THEN ParseFrom(table, lines, i + 1, st, lang, nodes)
               ELSE IF scen # Undefined THEN
                 ParseFrom(table, lines, i + 1, "scenario", lang, Append(nodes, node(scen)))
               ELSE ParseFrom(table, lines, i + 1, st, lang, nodes)
          [] st = "scenario" ->
               IF blank THEN ParseFrom(table, lines, i + 1, st, lang, nodes)
               ELSE IF step # Undefined THEN
                 ParseFrom(table, lines, i + 1, "step", lang, Append(nodes, node(step)))
               ELSE IF scen # Undefined THEN
                 ParseFrom(table, lines, i + 1, "scenario", lang, Append(nodes, node(scen)))
               ELSE ParseFrom(table, lines, i + 1, st, lang, nodes)
          [] OTHER ->
               IF step # Undefined THEN
                 ParseFrom(table, lines, i + 1, "step", lang, Append(nodes, node(step)))
               ELSE IF scen # Undefined THEN
                 ParseFrom(table, lines, i + 1, "scenario", lang, Append(nodes, node(scen)))
               ELSE IF blank THEN ParseFrom(table, lines, i + 1, st, lang, nodes)
               ELSE ParseFailure

\* this.parser.parse(source)
Parse(table, source) == ParseFrom(table, Split(source), 1, "start", EN, <<>>)

----------------------------------------------------------------------------
(* Keyword translation.                                                    *)

\* A variant of selectOutputKeyword that falls back to the first candidate
\* instead of the last one.
selectOutputKeywordFirst(outputDialect, keywordType, keywordIndex) ==
  LET candidates == outputDialect[keywordType]
      index      == IF keywordIndex < Len(candidates) THEN keywordIndex ELSE 0
  IN  At(candidates, index)

\* selectOutputKeyword(keyword, keywordType, keywordIndex)
selectOutputKeyword(outputDialect, keywordType, keywordIndex) ==
  LET candidates == outputDialect[keywordType]
      index      == Min(keywordIndex, Len(candidates) - 1)
  IN  At(candidates, index)

\* Object.entries(sourceDialect).filter(isArray).find(includes keyword):
\* the first keyword type whose list contains the keyword, or undefined
FindDialectEntry(sourceDialect, keyword) ==
  LET hits == {j \in 1..Len(DialectKeys) :
                 /\ IsArrayKey(DialectKeys[j])
                 /\ Includes(sourceDialect[DialectKeys[j]], keyword)}
  IN  IF hits = {} THEN NoEntry
      ELSE DialectKeys[CHOOSE j \in hits : \A k \in hits : j <= k]

\* A variant of translateKeyword that always selects the first candidate of
\* the keyword's type.
translateKeywordCanonical(outputDialect, keyword, sourceDialect) ==
  LET keywordType == FindDialectEntry(sourceDialect, keyword)
  IN  IF keywordType = NoEntry THEN Undefined
      ELSE At(outputDialect[keywordType], 0)

\* translateKeyword(keyword, sourceDialect); null is modelled as undefined
translateKeyword(outputDialect, keyword, sourceDialect) ==
  LET keywordType == FindDialectEntry(sourceDialect, keyword)
  IN  IF keywordType = NoEntry THEN Undefined
      ELSE selectOutputKeyword(outputDialect, keywordType,
                               IndexOf(sourceDialect[keywordType], keyword))

\* The pattern of translateLanguageComment,
\* /^(\s*#\s*language:\s*)(\w+)(\s*)$/ : the three groups, or null
LanguagePattern(line) ==
  LET a == SkipSpace(line, 1)
      b == SkipSpace(line, a + 1)
      c == SkipSpace(line, b + 2)
      d == SkipWord(line, c)
      e == SkipSpace(line, d)
  IN  IF /\ a <= Len(line) /\ line[a] = "#"
         /\ b + 1 <= Len(line) /\ line[b] = "language" /\ line[b + 1] = ":"
         /\ d > c
         /\ e = Len(line) + 1
      THEN <<SubSeq(line, 1, c - 1), SubSeq(line, c, d - 1), Rest(line, d)>>
      ELSE NoMatch

----------------------------------------------------------------------------
(* The feature files the model translates.                                 *)

SeqsUpTo(S, n) == UNION {[1..k -> S] : k \in 0..n}

AnnotationDE    == <<"#", " ", "language", ":", " ", "de">>
AnnotationENOdd == <<" ", "#", "language", ":", "en", "  ">>
BlankLine       == <<>>

HeaderLines == {AnnotationDE, AnnotationENOdd, BlankLine}

FeatureLine(keyword)  == keyword \o <<":", " ", "X">>
\* the title of a scenario repeats its keyword
ScenarioLine(keyword) == <<"  ">> \o keyword \o <<":", " ">> \o keyword
StepLine(keyword)     == <<"  ">> \o keyword \o <<"Z">>

Last(list) == list[Len(list)]

FeatureLines(d) == {FeatureLine(d.feature[1]), FeatureLine(Last(d.feature))}

\* A step line that follows the feature line directly is a description line.
BodyLines(d) ==
  {ScenarioLine(Last(d.scenario)), StepLine(d.given[1]), StepLine(Last(d.given))}

\* A German feature file that ends with a line break, without and with its
\* language annotation: "Funktionalität: X\n  Szenario: Y\n    Angenommen Z\n"
GermanText ==
  <<"Funktionalität", ":", " ", "X", "\n",
    "  ", "Szenario", ":", " ", "Y", "\n",
    "  ", "  ", "Angenommen", " ", "Z", "\n">>

AnnotatedGermanText == AnnotationDE \o <<"\n">> \o GermanText

Inputs ==
  {Join(h \o <<f>> \o b) :
     <<h, f, b>> \in UNION {SeqsUpTo(HeaderLines, MaxHeader)
                            \X FeatureLines(GherkinDialects[c])
                            \X SeqsUpTo(BodyLines(GherkinDialects[c]), MaxBody)
                            : c \in DOMAIN GherkinDialects}}
  \cup {Join(h) : h \in SeqsUpTo(HeaderLines, MaxHeader)}
  \cup {GermanText, AnnotatedGermanText}

----------------------------------------------------------------------------
(* The file system of the command line tool: the two feature files of the  *)
(* tests, read by name; "missing.feature" does not exist.                  *)

EnglishFeature ==
  Join(<<FeatureLine(<<"Feature">>), ScenarioLine(<<"Scenario">>),
         StepLine(<<"Given", " ">>)>>)

GermanFeature ==
  Join(<<AnnotationDE, FeatureLine(<<"Funktionalität">>),
         ScenarioLine(<<"Szenario">>), StepLine(<<"Angenommen", " ">>)>>)

InputFileNames == {"english.feature", "german.feature", "missing.feature"}

InitialFiles ==
  [f \in {"english.feature", "german.feature"} |->
     IF f = "english.feature" THEN EnglishFeature ELSE GermanFeature]

\* opts.output ? path.join(opts.output, relativeInputFileName) : inputFileName
OutputFileNames(inputFileName) == {inputFileName, "out/" \o inputFileName}

\* path.dirname(outputFileName)
Dirname(fileName) ==
  IF fileName \in InputFileNames THEN "."
  ELSE IF fileName = "out/out/german.feature" THEN "out/out"
  ELSE "out"

\* The input files of a run of the command line tool: the names above and
\* the name of a file of the output directory, which a run may create.
CliInputFileNames == InputFileNames \cup {"out/german.feature"}

\* The output file name of the run: with opts.output ("out") or in place.
OutputFileName(inputFileName, withOutput) ==
  IF withOutput THEN "out/" \o inputFileName ELSE inputFileName

----------------------------------------------------------------------------
(* State.                                                                  *)

VARIABLES
  dialects,           \* Gherkin.dialects
  translator,         \* "none", "ready" (constructed) or "failed" (constructor threw)
  outputDialectCode,  \* this.outputDialectCode
  dryRun,             \* this.dryRun
  parser,             \* this.parser is set
  pc,                 \* "idle" or, inside translateGherkin, "walk"
  source,             \* the argument of the running translateGherkin call
  document,           \* the parsed document of the running call
  sourceLines,        \* the array source.split("\n"), edited in place
  acc,                \* the walk's accumulator: "lines" (the array) or "undefined"
  next,               \* index of the next node the walk visits
  calls,              \* the finished translateGherkin calls, oldest first
  file,               \* the running translateFile call
  fs,                 \* the files: name -> text
  dirs,               \* the directories that exist
  log,                \* the messages of this.log, oldest first
  tasks,              \* the translateFile calls of a run of the command line tool
  exited              \* program.error has ended the process

vars == <<dialects, translator, outputDialectCode, dryRun, parser, pc, source,
          document, sourceLines, acc, next, calls, file, fs, dirs, log, tasks,
          exited>>

NoDocument == [error |-> "none", feature |-> FALSE, language |-> Undefined, nodes |-> <<>>]

NoFile == [state |-> "none", input |-> "", output |-> "", translated |-> Undefined]

\* this.outputDialect and the source dialect of the running call
outputDialect == dialects[outputDialectCode]
sourceDialect == dialects[document.language]

\* The record of a finished translateGherkin call.
Finished(src, doc, err, res, short, walked) ==
  [source |-> src, code |-> outputDialectCode, document |-> doc,
   error |-> err, result |-> res, shortCircuit |-> short, walked |-> walked]

\* A variant of Return in which translateFile goes on to write the result in
\* a dry run as well.
ReturnIgnoringDryRun(call) ==
  /\ calls' = Append(calls, call)
  /\ pc' = "idle"
  /\ source' = Undefined
  /\ document' = NoDocument
  /\ sourceLines' = <<>>
  /\ acc' = "undefined"
  /\ next' = 0
  /\ file' = IF file.state = "none" THEN file
             ELSE IF call.error # "none" THEN [file EXCEPT !.state = "failed"]
             ELSE [file EXCEPT !.state = "mkdir", !.translated = call.result]

\* translateGherkin returns or throws: the call is recorded; translateFile,
\* when it is the caller, goes on to write the result, ends (dry run) or
\* fails with the error.
Return(call) ==
  /\ calls' = Append(calls, call)
  /\ pc' = "idle"
  /\ source' = Undefined
  /\ document' = NoDocument
  /\ sourceLines' = <<>>
  /\ acc' = "undefined"
  /\ next' = 0
  /\ file' = IF file.state = "none" THEN file
             ELSE IF call.error # "none" THEN [file EXCEPT !.state = "failed"]
             ELSE IF dryRun THEN [file EXCEPT !.state = "done", !.translated = call.result]
             ELSE [file EXCEPT !.state = "mkdir", !.translated = call.result]

InitWith(table) ==
  /\ dialects = table
  /\ translator = "none"
  /\ outputDialectCode = Undefined
  /\ dryRun = FALSE
  /\ parser = FALSE
  /\ pc = "idle"
  /\ source = Undefined
  /\ document = NoDocument
  /\ sourceLines = <<>>
  /\ acc = "undefined"
  /\ next = 0
  /\ calls = <<>>
  /\ file = NoFile
  /\ fs = InitialFiles
  /\ dirs = {"."}
  /\ log = <<>>
  /\ tasks = <<>>
  /\ exited = FALSE

Init == InitWith(GherkinDialects)

----------------------------------------------------------------------------
(* Operations.                                                             *)

\* No call of the translator is running.
Quiet == pc = "idle" /\ file.state \in {"none", "done", "failed"}

\* A variant of Construct that sets up the parser before it validates the
\* dialect code.
ConstructParserFirst(code, dry) ==
  /\ Quiet
  /\ \/ translator = "none"
     \/ /\ translator = "ready"
        /\ file.state = "none" /\ tasks = <<>>
        /\ Len(calls) \in 1..(MaxCalls - 1)
        /\ Last(calls).error = "none"
        /\ code = Last(calls).document.language
        /\ ~dry
  /\ outputDialectCode' = code
  /\ dryRun' = dry
  /\ parser' = TRUE
  /\ translator' = IF IsDialect(dialects, code) THEN "ready" ELSE "failed"
  /\ UNCHANGED <<tasks, exited>>
  /\ UNCHANGED <<dialects, pc, source, document, sourceLines, acc, next, calls,
                 file, fs, dirs, log>>

\* new GherkinTranslator({ outputDialectCode: code, dryRun: dry }).  The
\* command line tool constructs one translator; a test constructs its own
\* (without dryRun), the first for any code, a later one to translate the
\* last result back to the dialect of the text it was made from.
Construct(code, dry) ==
  /\ Quiet
  /\ \/ translator = "none"
     \/ /\ translator = "ready"
        /\ file.state = "none" /\ tasks = <<>>
        /\ Len(calls) \in 1..(MaxCalls - 1)
        /\ Last(calls).error = "none"
        /\ code = Last(calls).document.language
        /\ ~dry
  /\ outputDialectCode' = code
  /\ dryRun' = dry
  /\ IF IsDialect(dialects, code)
     THEN translator' = "ready" /\ parser' = TRUE
     ELSE translator' = "failed" /\ parser' = FALSE
  /\ UNCHANGED <<tasks, exited>>
  /\ UNCHANGED <<dialects, pc, source, document, sourceLines, acc, next, calls,
                 file, fs, dirs, log>>

\* A variant of translateLanguageComment that overwrites line 0 with the new
\* annotation instead of inserting a line.
translateLanguageCommentOverwrite(lines, code) ==
  IF Len(lines) = 0 THEN lines
  ELSE
    LET match == LanguagePattern(lines[1])
    IN  IF match = NoMatch THEN
          [lines EXCEPT ![1] = <<"#", " ", "language", ":", " ">> \o code]
        ELSE IF code = DEFAULT_DIALECT_CODE THEN
          Tail(lines)
        ELSE
          [lines EXCEPT ![1] = match[1] \o code \o match[3]]

\* A variant of translateLanguageComment that never removes the annotation.
translateLanguageCommentKeep(lines, code) ==
  IF Len(lines) = 0 THEN lines
  ELSE
    LET match == LanguagePattern(lines[1])
    IN  IF match = NoMatch THEN
          <<<<"#", " ", "language", ":", " ">> \o code>> \o lines
        ELSE
          [lines EXCEPT ![1] = match[1] \o code \o match[3]]

\* A variant of translateLanguageComment that rewrites the annotation in the
\* normal form, without the spacing of the input.
translateLanguageCommentNormalize(lines, code) ==
  IF Len(lines) = 0 THEN lines
  ELSE
    LET match == LanguagePattern(lines[1])
    IN  IF match = NoMatch THEN
          <<<<"#", " ", "language", ":", " ">> \o code>> \o lines
        ELSE IF code = DEFAULT_DIALECT_CODE THEN
          Tail(lines)
        ELSE
          [lines EXCEPT ![1] = <<"#", " ", "language", ":", " ">> \o code]

\* translateLanguageComment(sourceLines): the array after the call
translateLanguageComment(lines, code) ==
  IF Len(lines) = 0 THEN lines
  ELSE
    LET match == LanguagePattern(lines[1])
    IN  IF match = NoMatch THEN
          <<<<"#", " ", "language", ":", " ">> \o code>> \o lines
        ELSE IF code = DEFAULT_DIALECT_CODE THEN
          Tail(lines)
        ELSE
          [lines EXCEPT ![1] = match[1] \o code \o match[3]]

\* GherkinUtils.walkGherkinDocument(document, lines, handlers) from node k
\* on, run to its end: the accumulator, the array and the error thrown.
RECURSIVE walkGherkinDocument(_, _, _, _, _, _)
walkGherkinDocument(outDialect, srcDialect, nodes, k, lines, accumulator) ==
  IF k > Len(nodes) THEN [acc |-> accumulator, lines |-> lines, error |-> "none"]
  ELSE
    LET node              == nodes[k]
        translatedKeyword == translateKeyword(outDialect, node.keyword, srcDialect)
    IN  IF translatedKeyword = Undefined THEN
          walkGherkinDocument(outDialect, srcDialect, nodes, k + 1, lines, "undefined")
        ELSE IF accumulator = "undefined" THEN
          [acc |-> accumulator, lines |-> lines, error |-> "TypeError"]
        ELSE
          walkGherkinDocument(outDialect, srcDialect, nodes, k + 1,
            [lines EXCEPT ![node.line] = StrReplace(lines[node.line], node.keyword,
                                                    translatedKeyword)],
            "lines")

\* translateGherkin(x) of a translator for the dialect code, run to its end
\* (the call is synchronous): the record of the finished call.
Translation(table, code, x) ==
  LET doc == Parse(table, x)
      thrown(err) == [source |-> x, code |-> code, document |-> doc, error |-> err,
                      result |-> Undefined, shortCircuit |-> FALSE, walked |-> <<>>]
  IN  IF doc.error # "none" THEN thrown("ParseError")
      ELSE IF ~doc.feature THEN thrown("TypeError")
      ELSE IF doc.language = code THEN
        [source |-> x, code |-> code, document |-> doc, error |-> "none",
         result |-> x, shortCircuit |-> TRUE, walked |-> <<>>]
      ELSE
        LET w == walkGherkinDocument(table[code], table[doc.language], doc.nodes, 1,
                                     Split(x), "lines")
        IN  IF w.error # "none" \/ w.acc = "undefined" THEN thrown("TypeError")
            ELSE [source |-> x, code |-> code, document |-> doc, error |-> "none",
                  result |-> Join(translateLanguageComment(w.lines, code)),
                  shortCircuit |-> FALSE, walked |-> w.lines]

\* A variant of translateGherkin that translates the language annotation
\* before the walk.
translateGherkinAnnotateFirst(x) ==
  LET doc == Parse(dialects, x)
  IN  IF doc.error # "none" THEN
        Return(Finished(x, doc, "ParseError", Undefined, FALSE, <<>>))
      ELSE IF ~doc.feature THEN
        Return(Finished(x, doc, "TypeError", Undefined, FALSE, <<>>))
      ELSE IF doc.language = outputDialectCode THEN
        Return(Finished(x, doc, "none", x, TRUE, <<>>))
      ELSE
        /\ pc' = "walk"
        /\ source' = x
        /\ document' = doc
        /\ sourceLines' = translateLanguageComment(Split(x), outputDialectCode)
        /\ acc' = "lines"
        /\ next' = 1
        /\ file' = IF file.state = "read" THEN [file EXCEPT !.state = "translate"]
                   ELSE file
        /\ UNCHANGED calls

\* translateGherkin(x) up to the start of the walk.  The call ends here when
\* the parser throws, when the document has no feature
\* (document.feature.language throws a TypeError) and when the document is in
\* the output dialect already (x is returned).
translateGherkin(x) ==
  LET doc == Parse(dialects, x)
  IN  IF doc.error # "none" THEN
        Return(Finished(x, doc, "ParseError", Undefined, FALSE, <<>>))
      ELSE IF ~doc.feature THEN
        Return(Finished(x, doc, "TypeError", Undefined, FALSE, <<>>))
      ELSE IF doc.language = outputDialectCode THEN
        Return(Finished(x, doc, "none", x, TRUE, <<>>))
      ELSE
        /\ pc' = "walk"
        /\ source' = x
        /\ document' = doc
        /\ sourceLines' = Split(x)
        /\ acc' = "lines"
        /\ next' = 1
        /\ file' = IF file.state = "read" THEN [file EXCEPT !.state = "translate"]
                   ELSE file
        /\ UNCHANGED calls

\* The text a test translates: a feature file, or the result of the last call.
Arguments ==
  IF calls = <<>> THEN Inputs
  ELSE IF Last(calls).error = "none" THEN {Last(calls).result}
  ELSE {}

\* The tests: translateGherkin(x) on a translator built without dryRun; a
\* run of the tests calls no translateFile.
TranslateGherkin ==
  /\ Quiet
  /\ file.state = "none"
  /\ translator = "ready"
  /\ ~dryRun
  /\ Len(calls) < MaxCalls
  /\ \E x \in Arguments : translateGherkin(x)
  /\ UNCHANGED <<tasks, exited>>
  /\ UNCHANGED <<dialects, translator, outputDialectCode, dryRun, parser, fs, dirs, log>>

\* The walk visits the next node: the handler translateKeywordOf(node, ...)
\* runs and its return value becomes the accumulator of the walk.
WalkNode ==
  /\ pc = "walk"
  /\ next <= Len(document.nodes)
  /\ LET node              == document.nodes[next]
         translatedKeyword == translateKeyword(outputDialect, node.keyword, sourceDialect)
         lineIndex         == node.line - 1
         translatedLine    == StrReplace(sourceLines[lineIndex + 1], node.keyword,
                                         translatedKeyword)
     IN  IF translatedKeyword = Undefined THEN
           \* found no translation: return;
           /\ acc' = "undefined"
           /\ next' = next + 1
           /\ UNCHANGED <<pc, source, document, sourceLines, calls, file>>
         ELSE IF acc = "undefined" THEN
           \* sourceLines[lineIndex] on undefined
           Return(Finished(source, document, "TypeError", Undefined, FALSE, <<>>))
         ELSE
           /\ sourceLines' = [sourceLines EXCEPT ![lineIndex + 1] = translatedLine]
           /\ acc' = "lines"
           /\ next' = next + 1
           /\ UNCHANGED <<pc, source, document, calls, file>>
  /\ UNCHANGED <<tasks, exited>>
  /\ UNCHANGED <<dialects, translator, outputDialectCode, dryRun, parser, fs, dirs, log>>

\* The end of translateGherkin after the walk: the language annotation is
\* translated and the lines are joined.
FinishTranslate ==
  /\ pc = "walk"
  /\ next > Len(document.nodes)
  /\ IF acc = "undefined"
     THEN \* sourceLines.length on undefined
          Return(Finished(source, document, "TypeError", Undefined, FALSE, <<>>))
     ELSE Return(Finished(source, document, "none",
                          Join(translateLanguageComment(sourceLines, outputDialectCode)),
                          FALSE, sourceLines))
  /\ UNCHANGED <<tasks, exited>>
  /\ UNCHANGED <<dialects, translator, outputDialectCode, dryRun, parser, fs, dirs, log>>

\* The command line tool: translator.translateFile(inputFileName, outputFileName)
\* is called and waits for fs.readFile.
TranslateFile(inputFileName, outputFileName) ==
  /\ Quiet
  /\ translator = "ready"
  /\ calls = <<>> \/ file.state # "none"
  /\ Len(calls) < MaxCalls
  /\ file' = [state |-> "read", input |-> inputFileName, output |-> outputFileName,
              translated |-> Undefined]
  /\ UNCHANGED <<tasks, exited>>
  /\ UNCHANGED <<dialects, translator, outputDialectCode, dryRun, parser, pc, source,
                 document, sourceLines, acc, next, calls, fs, dirs, log>>

\* fs.readFile fails: translateFile rejects.
ReadFails ==
  /\ file.state = "read"
  /\ file.input \notin DOMAIN fs
  /\ file' = [file EXCEPT !.state = "failed"]
  /\ UNCHANGED <<tasks, exited>>
  /\ UNCHANGED <<dialects, translator, outputDialectCode, dryRun, parser, pc, source,
                 document, sourceLines, acc, next, calls, fs, dirs, log>>

\* fs.readFile resolves: the action is logged and translateGherkin is called.
ReadFile ==
  /\ file.state = "read"
  /\ file.input \in DOMAIN fs
  /\ log' = Append(log, [dry |-> dryRun, input |-> file.input, output |-> file.output])
  /\ translateGherkin(fs[file.input])
  /\ UNCHANGED <<tasks, exited>>
  /\ UNCHANGED <<dialects, translator, outputDialectCode, dryRun, parser, fs, dirs>>

\* fs.mkdir(outputDirectory, { recursive: true })
Mkdir ==
  /\ file.state = "mkdir"
  /\ dirs' = dirs \cup {Dirname(file.output)}
  /\ file' = [file EXCEPT !.state = "write"]
  /\ UNCHANGED <<tasks, exited>>
  /\ UNCHANGED <<dialects, translator, outputDialectCode, dryRun, parser, pc, source,
                 document, sourceLines, acc, next, calls, fs, log>>

\* fs.writeFile(outputFileName, translated)
WriteFile ==
  /\ file.state = "write"
  /\ fs' = [f \in DOMAIN fs \cup {file.output} |->
              IF f = file.output THEN file.translated ELSE fs[f]]
  /\ file' = [file EXCEPT !.state = "done"]
  /\ UNCHANGED <<tasks, exited>>
  /\ UNCHANGED <<dialects, translator, outputDialectCode, dryRun, parser, pc, source,
                 document, sourceLines, acc, next, calls, dirs, log>>

----------------------------------------------------------------------------
(* A run of the command line tool: one translator, translateFile started   *)
(* for every input file before any of them goes on (Promise.all).  A call  *)
(* is suspended at its read, mkdir and write; between two suspensions it   *)
(* runs without interruption.  The first rejection ends the process.       *)

\* inputFileNames.map(... translator.translateFile(inputFileName, outputFileName))
StartTranslations(inputFileNames, withOutput) ==
  /\ translator = "ready"
  /\ tasks = <<>> /\ ~exited
  /\ tasks' = [k \in 1..Len(inputFileNames) |->
                [state |-> "read", input |-> inputFileNames[k],
                 output |-> OutputFileName(inputFileNames[k], withOutput),
                 translated |-> Undefined]]
  /\ UNCHANGED <<dialects, translator, outputDialectCode, dryRun, parser, pc, source,
                 document, sourceLines, acc, next, calls, file, fs, dirs, log, exited>>

\* fs.readFile of call t settles: it rejects (program.error ends the
\* process), or the call logs, translates the text read and, when the
\* translation throws, rejects as well; otherwise it ends (dry run) or asks
\* for the directory.
ResolveRead(t) ==
  /\ ~exited
  /\ tasks[t].state = "read"
  /\ IF tasks[t].input \notin DOMAIN fs THEN
       /\ tasks' = [tasks EXCEPT ![t].state = "failed"]
       /\ exited' = TRUE
       /\ UNCHANGED <<log, calls>>
     ELSE
       LET call == Translation(dialects, outputDialectCode, fs[tasks[t].input])
       IN  /\ log' = Append(log, [dry |-> dryRun, input |-> tasks[t].input,
                                  output |-> tasks[t].output])
           /\ calls' = Append(calls, call)
           /\ tasks' = [tasks EXCEPT
                          ![t].state = IF call.error # "none" THEN "failed"
                                       ELSE IF dryRun THEN "done" ELSE "mkdir",
                          ![t].translated = call.result]
           /\ exited' = (call.error # "none")
  /\ UNCHANGED <<dialects, translator, outputDialectCode, dryRun, parser, pc, source,
                 document, sourceLines, acc, next, file, fs, dirs>>

\* fs.mkdir of call t resolves: the call asks for the write.
ResolveMkdir(t) ==
  /\ ~exited
  /\ tasks[t].state = "mkdir"
  /\ dirs' = dirs \cup {Dirname(tasks[t].output)}
  /\ tasks' = [tasks EXCEPT ![t].state = "write"]
  /\ UNCHANGED <<dialects, translator, outputDialectCode, dryRun, parser, pc, source,
                 document, sourceLines, acc, next, calls, file, fs, log, exited>>

\* A variant of ResolveWrite in which the calls share one buffer for the
\* translated text: the text of the call that translated last is written.
ResolveWriteShared(t) ==
  /\ ~exited
  /\ tasks[t].state = "write"
  /\ fs' = [f \in DOMAIN fs \cup {tasks[t].output} |->
              IF f = tasks[t].output THEN Last(calls).result ELSE fs[f]]
  /\ tasks' = [tasks EXCEPT ![t].state = "done"]
  /\ UNCHANGED <<dialects, translator, outputDialectCode, dryRun, parser, pc, source,
                 document, sourceLines, acc, next, calls, file, dirs, log, exited>>

\* fs.writeFile of call t resolves: the call is done.
ResolveWrite(t) ==
  /\ ~exited
  /\ tasks[t].state = "write"
  /\ fs' = [f \in DOMAIN fs \cup {tasks[t].output} |->
              IF f = tasks[t].output THEN tasks[t].translated ELSE fs[f]]
  /\ tasks' = [tasks EXCEPT ![t].state = "done"]
  /\ UNCHANGED <<dialects, translator, outputDialectCode, dryRun, parser, pc, source,
                 document, sourceLines, acc, next, calls, file, dirs, log, exited>>

Next ==
  \/ \E code \in DOMAIN GherkinDialects \cup {XX}, dry \in BOOLEAN : Construct(code, dry)
  \/ TranslateGherkin
  \/ WalkNode
  \/ FinishTranslate
  \/ \E i \in InputFileNames : \E o \in OutputFileNames(i) : TranslateFile(i, o)
  \/ ReadFails
  \/ ReadFile
  \/ Mkdir
  \/ WriteFile

Spec == Init /\ [][Next]_vars

\* The same program over a dialect table with a gap.
InitGap == InitWith(GappedDialects)
SpecGap == InitGap /\ [][Next]_vars

\* A run of the command line tool.
NextCli ==
  \/ \E code \in DOMAIN GherkinDialects \cup {XX}, dry \in BOOLEAN : Construct(code, dry)
  \/ \E k \in 1..MaxFiles : \E names \in [1..k -> CliInputFileNames] :
       \E withOutput \in BOOLEAN : StartTranslations(names, withOutput)
  \/ \E t \in DOMAIN tasks : ResolveRead(t)
  \/ \E t \in DOMAIN tasks : ResolveMkdir(t)
  \/ \E t \in DOMAIN tasks : ResolveWrite(t)

SpecCli == Init /\ [][NextCli]_vars

----------------------------------------------------------------------------
(* Properties.  They are stated over the finished calls: the text each     *)
(* call was given, the document the parser built from it, and the text it  *)
(* returned or the error it threw.                                         *)

\* The call that finished last, while no call is running.  calls only grows,
\* by one record when a call ends, so every call is the last one in the
\* state it ends in and a property of the last call in every state is a
\* property of every call.
FinishedCalls == IF pc = "idle" /\ calls # <<>> THEN {Last(calls)} ELSE {}

\* The call returned a text.
Returned(c) == c.error = "none"

\* The call returned after the walk and the annotation step.
Translated(c) == Returned(c) /\ ~c.shortCircuit

InLines(c)  == Split(c.source)
OutLines(c) == Split(c.result)

\* The source dialect of a parsed text: the language its feature declares, the
\* default when nothing declares one.
DeclaredDialect(doc) == IF doc.feature THEN doc.language ELSE DEFAULT_DIALECT_CODE

\* The nodes of the document located on line i (1-based).
NodesAt(c, i) == {j \in 1..Len(c.document.nodes) : c.document.nodes[j].line = i}

\* The keyword types, and the place of a type in the table's iteration order.
KeywordTypes == {"and", "feature", "given", "scenario"}
TypeOrder(T) == CHOOSE j \in 1..Len(DialectKeys) : DialectKeys[j] = T

\* The first keyword type of dialect d whose list contains k.
FirstTypeOf(d, k) ==
  CHOOSE T \in KeywordTypes :
    /\ \E i \in 1..Len(d[T]) : d[T][i] = k
    /\ \A U \in KeywordTypes :
         (\E i \in 1..Len(d[U]) : d[U][i] = k) => TypeOrder(T) <= TypeOrder(U)

\* The 0-based position of k in the list.
PositionIn(list, k) ==
  CHOOSE i \in 0..(Len(list) - 1) :
    list[i + 1] = k /\ \A j \in 0..(i - 1) : list[j + 1] # k

\* The keyword the claim prescribes for keyword k of dialect `from` in dialect `to`.
PrescribedKeyword(from, to, k) ==
  LET T == FirstTypeOf(from, k)
      i == PositionIn(from[T], k)
  IN  to[T][Min(i, Len(to[T]) - 1) + 1]

\* The line with the keyword that follows its indentation exchanged for k2.
WithKeyword(line, k, k2) ==
  LET a == SkipSpace(line, 1)
  IN  SubSeq(line, 1, a - 1) \o k2 \o Rest(line, a + Len(k))

\* The input lines of call c with the keyword of every node translated as
\* prescribed and nothing else changed.
PrescribedLines(c) ==
  LET from == dialects[c.document.language]
      to   == dialects[c.code]
      in   == InLines(c)
  IN  [i \in 1..Len(in) |->
         IF NodesAt(c, i) = {} THEN in[i]
         ELSE LET k == c.document.nodes[CHOOSE j \in NodesAt(c, i) : TRUE].keyword
              IN  WithKeyword(in[i], k, PrescribedKeyword(from, to, k))]

\* Line 0 of the input is a language annotation (the pattern of the spec).
Annotated(c) == LanguagePattern(InLines(c)[1]) # NoMatch

\* C1 (as stated): a parseable text whose declared dialect (the default when
\* it declares none) is the output dialect is returned as it is.
C1_NoOpOnMatchingDialect ==
  \A c \in FinishedCalls :
    (c.document.error = "none" /\ DeclaredDialect(c.document) = c.code)
      => (Returned(c) /\ c.result = c.source)

\* C2: the keyword written for a node is the output dialect's keyword of the
\* first type that lists the node's keyword, at the same position or, when the
\* output list is shorter, at its last position; the position is in range.
C2_IndexPreservationWithClamping ==
  \A c \in FinishedCalls : Translated(c) =>
    \A j \in 1..Len(c.document.nodes) :
      LET n    == c.document.nodes[j]
          from == dialects[c.document.language]
          to   == dialects[c.code]
          T    == FirstTypeOf(from, n.keyword)
          i    == PositionIn(from[T], n.keyword)
          pos  == Min(i, Len(to[T]) - 1)
      IN  /\ pos \in 0..(Len(to[T]) - 1)
          /\ pos = (IF i < Len(to[T]) THEN i ELSE Len(to[T]) - 1)
          /\ c.walked[n.line] = WithKeyword(InLines(c)[n.line], n.keyword, to[T][pos + 1])

\* A call translated a keyword whose position the output list does not have.
C2_Witness ==
  \E c \in FinishedCalls :
    /\ Translated(c)
    /\ \E j \in 1..Len(c.document.nodes) :
         LET k == c.document.nodes[j].keyword
             T == FirstTypeOf(dialects[c.document.language], k)
         IN  /\ PositionIn(dialects[c.document.language][T], k) >= Len(dialects[c.code][T])
             /\ Len(dialects[c.code][T]) > 1

\* C3: a default-dialect text without annotation translated to another
\* dialect gets one new first line "# language: <code>", every input line
\* follows one index later with its keyword translated; the line count grows
\* in no other case than the one where line 0 is no annotation.
C3_AnnotationInsertion ==
  \A c \in FinishedCalls : Returned(c) =>
    /\ (Translated(c) /\ c.document.language = DEFAULT_DIALECT_CODE /\ ~Annotated(c))
         => /\ Len(OutLines(c)) = Len(InLines(c)) + 1
            /\ OutLines(c)[1] = <<"#", " ", "language", ":", " ">> \o c.code
            /\ \A i \in 1..Len(InLines(c)) : OutLines(c)[i + 1] = PrescribedLines(c)[i]
    /\ Len(OutLines(c)) > Len(InLines(c)) => (Translated(c) /\ ~Annotated(c))

\* An English text without annotation was translated and has a translated node.
C3_Witness ==
  \E c \in FinishedCalls :
    /\ Translated(c) /\ c.document.language = DEFAULT_DIALECT_CODE /\ ~Annotated(c)
    /\ c.code = DE
    /\ Len(c.document.nodes) >= 2
    /\ OutLines(c)[1] = AnnotationDE

\* C4: when line 0 is an annotation and the output dialect is the default,
\* line 0 is removed and every other line moves up by one, translated.
C4_AnnotationRemoval ==
  \A c \in FinishedCalls :
    (Translated(c) /\ Annotated(c) /\ c.code = DEFAULT_DIALECT_CODE)
      => /\ Len(OutLines(c)) = Len(InLines(c)) - 1
         /\ \A i \in 2..Len(InLines(c)) : OutLines(c)[i - 1] = PrescribedLines(c)[i]

\* A German text with its annotation was translated to English.
C4_Witness ==
  \E c \in FinishedCalls :
    /\ Translated(c) /\ Annotated(c) /\ c.code = DEFAULT_DIALECT_CODE
    /\ Len(c.document.nodes) >= 2
    /\ Len(OutLines(c)) = Len(InLines(c)) - 1

\* The position of the last character of the line that is no white space.
LastNonSpace(line) ==
  CHOOSE b \in 0..Len(line) :
    /\ \A m \in (b + 1)..Len(line) : IsSpace(line[m])
    /\ b = 0 \/ ~IsSpace(line[b])

\* The position at which the word that ends at position b starts.
WordStart(line, b) ==
  CHOOSE a \in 1..b :
    /\ \A m \in a..b : IsWord(line[m])
    /\ a = 1 \/ ~IsWord(line[a - 1])

\* C5: when line 0 is an annotation and the output dialect is not the
\* default, line 0 keeps every character before and after its language code,
\* the code becomes the output code, and the line count does not change.
C5_AnnotationRewrite ==
  \A c \in FinishedCalls :
    (Translated(c) /\ Annotated(c) /\ c.code # DEFAULT_DIALECT_CODE)
      => LET line == InLines(c)[1]
             b    == LastNonSpace(line)
             a    == WordStart(line, b)
         IN  /\ Len(OutLines(c)) = Len(InLines(c))
             /\ OutLines(c)[1] = SubSeq(line, 1, a - 1) \o c.code \o Rest(line, b + 1)
             /\ \A i \in 2..Len(InLines(c)) : OutLines(c)[i] = PrescribedLines(c)[i]

\* An annotation with unusual spacing was rewritten.
C5_Witness ==
  \E c \in FinishedCalls :
    /\ Translated(c) /\ Annotated(c) /\ c.code # DEFAULT_DIALECT_CODE
    /\ InLines(c)[1] = AnnotationENOdd
    /\ OutLines(c)[1] # InLines(c)[1]

\* C6 (as stated): translating the result of a translation to dialect D once
\* more to D returns that result.
C6_Idempotence ==
  Len(calls) >= 2 =>
    LET a == calls[1]
        b == calls[2]
    IN  (Returned(a) /\ b.code = a.code /\ b.source = a.result)
          => (Returned(b) /\ b.result = a.result)

\* The keyword of dialect `from` comes back from a translation to dialect `to`
\* and back: its position exists in the other list and leads back to it.
ComesBack(from, to, k) ==
  LET T == FirstTypeOf(from, k)
  IN  /\ Len(to[T]) > PositionIn(from[T], k)
      /\ PrescribedKeyword(to, from, PrescribedKeyword(from, to, k)) = k

\* The keyword mapping between the dialect of the text of call c and the
\* output dialect of c is one-to-one on the keywords the text uses.
Bijective(c) ==
  \A j \in 1..Len(c.document.nodes) :
    ComesBack(dialects[c.document.language], dialects[c.code], c.document.nodes[j].keyword)

\* The second call translates the result of the first back to the dialect of
\* the first call's text.
RoundTrip(a, b) ==
  /\ Returned(a) /\ a.document.feature
  /\ b.source = a.result
  /\ b.code = a.document.language

LooksAnnotated(line) == LanguagePattern(line) # NoMatch \/ MatchLanguage(line) # Undefined

\* The code is one word of the annotation pattern (\w+).
WordCode(code) == \A i \in 1..Len(code) : IsWord(code[i])

\* The text of call c declares its dialect the way the translator writes it:
\* no annotation when the dialect is the default, line 0 equal to
\* "# language: <code>" otherwise, and no other line that reads as one.
CanonicalAnnotation(c) ==
  LET in   == InLines(c)
      code == c.document.language
  IN  IF code = DEFAULT_DIALECT_CODE
      THEN \A i \in 1..Len(in) : ~LooksAnnotated(in[i])
      ELSE /\ in[1] = <<"#", " ", "language", ":", " ">> \o code
           /\ \A i \in 2..Len(in) : ~LooksAnnotated(in[i])

FirstOccurrence(line, k) ==
  IF \E p \in 1..Len(line) : p + Len(k) - 1 <= Len(line) /\ SubSeq(line, p, p + Len(k) - 1) = k
  THEN CHOOSE p \in 1..Len(line) :
         /\ p + Len(k) - 1 <= Len(line) /\ SubSeq(line, p, p + Len(k) - 1) = k
         /\ \A q \in 1..(p - 1) : SubSeq(line, q, q + Len(k) - 1) # k
  ELSE 0

\* C8: a line that holds no node and is not the annotation line 0 is in the
\* output as it is, moved by at most the one inserted or removed line; on the
\* line of a node only the first occurrence of the keyword is exchanged.
C8_LineLocalMutation ==
  \A c \in FinishedCalls : Returned(c) =>
    LET in    == InLines(c)
        out   == OutLines(c)
        shift == Len(out) - Len(in)
    IN  /\ shift \in {-1, 0, 1}
        /\ \A i \in 1..Len(in) :
             IF NodesAt(c, i) = {} THEN
               (i = 1 /\ Annotated(c)) \/ c.shortCircuit \/ out[i + shift] = in[i]
             ELSE
               LET k == c.document.nodes[CHOOSE j \in NodesAt(c, i) : TRUE].keyword
                   p == FirstOccurrence(in[i], k)
                   o == out[i + shift]
                   r == Len(in[i]) - (p + Len(k) - 1)
               IN  /\ p > 0
                   /\ Len(o) >= p - 1 + r
                   /\ SubSeq(o, 1, p - 1) = SubSeq(in[i], 1, p - 1)
                   /\ Rest(o, Len(o) - r + 1) = Rest(in[i], Len(in[i]) - r + 1)
        /\ c.shortCircuit => out = in

\* A call translated a scenario line (its title repeats the keyword) and left
\* a description line that starts with a step keyword as it was, with the
\* lines moved by the new annotation.
C8_Witness ==
  \E c \in FinishedCalls :
    /\ Translated(c)
    /\ Len(OutLines(c)) = Len(InLines(c)) + 1
    /\ \E i \in 1..Len(InLines(c)) :
         /\ NodesAt(c, i) # {}
         /\ InLines(c)[i] = ScenarioLine(<<"Scenario">>)
         /\ OutLines(c)[i + 1] = <<"  ", "Szenario", ":", " ", "Scenario">>
    /\ \E i \in 1..Len(InLines(c)) :
         /\ NodesAt(c, i) = {}
         /\ InLines(c)[i] = StepLine(<<"Given", " ">>)
         /\ OutLines(c)[i + 1] = StepLine(<<"Given", " ">>)

\* The walk of call c met a keyword without translation.
Untranslatable(c) ==
  /\ c.document.error = "none" /\ c.document.feature
  /\ c.document.language # c.code
  /\ \E j \in 1..Len(c.document.nodes) :
       translateKeyword(dialects[c.code], c.document.nodes[j].keyword,
                        dialects[c.document.language]) = Undefined

\* C9 (as stated): a call whose walk meets a keyword without translation
\* does not raise.
C9_PerNodeFailureNotFatal ==
  \A c \in FinishedCalls : Untranslatable(c) => Returned(c)

\* C10: the constructor fails exactly for the codes that are no key of the
\* dialect table; the failed translator has no parser, nothing runs in it,
\* and no step follows the failure.
C10_FailFastConstruction ==
  /\ [](translator = "failed" => (~IsDialect(dialects, outputDialectCode) /\ ~parser /\ Quiet))
  /\ [](translator = "ready" => (IsDialect(dialects, outputDialectCode) /\ parser))
  /\ [][translator # "failed"]_vars
  /\ [][translator' = "failed" =>
         (translator # "failed" /\ Quiet
          /\ UNCHANGED <<calls, file, fs, dirs, log, pc>>)]_vars
  /\ [](\A c \in FinishedCalls : c.error \in {"none", "ParseError", "TypeError"})

\* The constructor threw for an unknown code before any call.
C10_Witness ==
  translator = "failed" /\ outputDialectCode = XX /\ calls = <<>> /\ log = <<>>

\* The message translateFile logs for the running call.
LogMessage == [dry |-> dryRun, input |-> file.input, output |-> file.output]

\* The file system after fs.writeFile(file.output, text).
Written(text) ==
  [f \in DOMAIN fs \cup {file.output} |-> IF f = file.output THEN text ELSE fs[f]]

EnglishText ==
  <<"Feature", ":", " ", "X", "\n",
    "  ", "Scenario", ":", " ", "Y", "\n",
    "  ", "  ", "Given", " ", "Z", "\n">>

\* C12 (as stated): the German text without annotation, translated to en,
\* yields "# language: en" followed by the English text.
C12_ConcreteScenario ==
  \A c \in FinishedCalls :
    (c.source = GermanText /\ c.code = EN)
      => (Returned(c) /\ c.result = <<"#", " ", "language", ":", " ", "en", "\n">> \o EnglishText)

\* C12 (amended): the German text without annotation is read in the default
\* dialect and the parser rejects it; with the first line "# language: de"
\* its translation to en is the English text, without annotation and with
\* the line break at the end.
C12_ConcreteScenarioAnnotated ==
  \A c \in FinishedCalls :
    /\ c.source = GermanText => c.error = "ParseError"
    /\ (c.source = AnnotatedGermanText /\ c.code = EN)
         => (Returned(c) /\ c.result = EnglishText)

\* The annotated German text was translated to en, all three keywords.
C12_Witness ==
  \E c \in FinishedCalls :
    /\ c.source = AnnotatedGermanText /\ c.code = EN
    /\ Translated(c)
    /\ Len(c.document.nodes) = 3
    /\ c.result = EnglishText

\* The lines of the nodes the running walk has visited.
Visited == {document.nodes[j].line : j \in 1..(next - 1)}

\* The array differs from the other at most at index 0, by one line inserted
\* there, one line removed there or line 0 exchanged.
EditedAtIndex0(out, lines) ==
  \/ Len(out) = Len(lines) /\ Tail(out) = Tail(lines)
  \/ out = Tail(lines)
  \/ Tail(out) = lines

\* C13: during the walk the line array has the line count of the text and
\* differs from it on the lines of visited nodes only; each step of the walk
\* edits exactly the line of the next node, which still holds the text the
\* parser located the keyword in; the call returns after the last node only,
\* with one annotation step applied to the walked array, which changes it
\* at index 0 and nowhere else.
C13_EditOrdering ==
  /\ [](pc = "walk" =>
         /\ Len(sourceLines) = Len(Split(source))
         /\ \A i \in 1..Len(sourceLines) :
              i \notin Visited => sourceLines[i] = Split(source)[i])
  /\ [][(pc = "walk" /\ pc' = "walk") =>
         /\ next <= Len(document.nodes) /\ next' = next + 1
         /\ LET n == document.nodes[next]
            IN  /\ n.line \in 1..Len(sourceLines)
                /\ sourceLines[n.line] = Split(source)[n.line]
                /\ StrIndexOf(sourceLines[n.line], n.keyword) >= 0
                /\ \A i \in 1..Len(sourceLines) :
                     i # n.line => sourceLines'[i] = sourceLines[i]
                /\ Len(sourceLines') = Len(sourceLines)]_vars
  /\ [][(pc = "walk" /\ pc' = "idle") =>
         /\ next > Len(document.nodes)
         /\ Len(calls') = Len(calls) + 1
         /\ LET c == Last(calls')
            IN  /\ Translated(c)
                /\ c.walked = sourceLines
                /\ OutLines(c) = translateLanguageComment(c.walked, c.code)
                /\ EditedAtIndex0(OutLines(c), c.walked)]_vars
  /\ [](\A c \in FinishedCalls : Translated(c) => Len(c.walked) = Len(InLines(c)))

\* A call edited the lines of two nodes or more and then got its annotation
\* inserted above them.
C13_Witness ==
  \E c \in FinishedCalls :
    /\ Translated(c)
    /\ Len(c.document.nodes) >= 2
    /\ \E i, j \in 1..Len(c.walked) : i # j /\ c.walked[i] # InLines(c)[i]
                                             /\ c.walked[j] # InLines(c)[j]
    /\ Tail(OutLines(c)) = c.walked

\* The lines of the text that match the language annotation pattern.
AnnotationLines(lines) == {i \in 1..Len(lines) : LanguagePattern(lines[i]) # NoMatch}

\* C14 (as stated): when a call reaches the annotation step and line 0 of
\* its text does not match the annotation pattern, the text has no language
\* annotation and its dialect is the default; the output has exactly one
\* language annotation, its new first line, which declares the output
\* dialect.
C14_NoMatchMeansDefaultDialect ==
  \A c \in FinishedCalls :
    (Translated(c) /\ ~Annotated(c))
      => /\ AnnotationLines(InLines(c)) = {}
         /\ c.document.language = DEFAULT_DIALECT_CODE
         /\ OutLines(c)[1] = <<"#", " ", "language", ":", " ">> \o c.code
         /\ AnnotationLines(OutLines(c)) = {1}

\* The files after a sequential run over the list from its i-th element on:
\* each file is read, translated and written before the next is read, and
\* the first failure ends the run.
RECURSIVE SequentialRun(_, _, _)
SequentialRun(files, list, i) ==
  IF i > Len(list) THEN files
  ELSE IF list[i].input \notin DOMAIN files THEN files
  ELSE
    LET call == Translation(dialects, outputDialectCode, files[list[i].input])
    IN  IF call.error # "none" THEN files
        ELSE IF dryRun THEN SequentialRun(files, list, i + 1)
        ELSE SequentialRun(
               [f \in DOMAIN files \cup {list[i].output} |->
                  IF f = list[i].output THEN call.result ELSE files[f]],
               list, i + 1)

\* No path of one file of the run is a path of another file of the run.
DistinctPaths ==
  \A i, j \in DOMAIN tasks :
    i # j => {tasks[i].input, tasks[i].output} \cap {tasks[j].input, tasks[j].output} = {}

AllDone == tasks # <<>> /\ \A t \in DOMAIN tasks : tasks[t].state = "done"

====
